---- MODULE Spec2Model ----
(***************************************************************************)
(* A model of gamboye's CPU register file (src/cpu/registers.rs) and of    *)
(* its pixel decode pipeline (src/ppu.rs).                                 *)
(*                                                                         *)
(* Integers keep the width they have in the source: u8 values live in      *)
(* 0..255, u16 values in 0..65535, and every shift / add is reduced the    *)
(* way the Rust operator reduces it.                                       *)
(***************************************************************************)
EXTENDS Integers, Sequences, FiniteSets, TLC

VARIABLES
    regs,      \* the Registers instance
    call,      \* the last Registers call: [op, arg, ret]
    flags,     \* a stand-alone Flags instance
    fcall,     \* the last Flags call on it: [op, arg, ret]
    bytes,     \* the argument of Ppu::interleave
    out,       \* what Ppu::interleave returned for it
    lcdcIn,    \* tile address computation: the lcdc byte
    offsetIn,  \* tile address computation: the u16 offset
    taddr,     \* tile address computation: [done, panic, addr]
    ppu,       \* the Ppu instance: [window, lcdc, stat]
    memory,    \* the Mmu's contents at the addresses that were stored to
    loads,     \* number of Mmu::load_block calls made so far
    frames,    \* number of frames handed to the window
    screen,    \* the buffer last handed to the window (its written cells)
    renders,   \* number of Ppu::render calls made so far
    rlog,      \* what the last render call did: [idx, addrs]
    panicked   \* the process has panicked

vars      == <<regs, call, flags, fcall, bytes, out, lcdcIn, offsetIn, taddr,
               ppu, memory, loads, frames, screen, renders, rlog, panicked>>

----------------------------------------------------------------------------
(* Fixed-width integer arithmetic *)

U8  == 0..255

Pow2(n) == 2^n

RECURSIVE BitAnd(_, _)
BitAnd(a, b) ==
    IF a = 0 \/ b = 0 THEN 0
    ELSE (IF a % 2 = 1 /\ b % 2 = 1 THEN 1 ELSE 0) + 2 * BitAnd(a \div 2, b \div 2)

RECURSIVE BitOr(_, _)
BitOr(a, b) ==
    IF a = 0 THEN b
    ELSE IF b = 0 THEN a
    ELSE (IF a % 2 = 1 \/ b % 2 = 1 THEN 1 ELSE 0) + 2 * BitOr(a \div 2, b \div 2)

\* x >> n on an unsigned value
Shr(x, n) == x \div Pow2(n)

\* x << n on a u8: the bits shifted past bit 7 are dropped
Shl8(x, n) == (x * Pow2(n)) % 256

\* x << n on a u16
Shl16(x, n) == (x * Pow2(n)) % 65536

\* `x as u8` of a wider unsigned value
AsU8(x) == x % 256

\* `x as i16` of a u16
AsI16(x) == IF x >= 32768 THEN x - 65536 ELSE x

\* `x as u16` of an i16
AsU16(x) == IF x < 0 THEN x + 65536 ELSE x

\* u16::wrapping_add
wrapping_add(a, b) == (a + b) % 65536

----------------------------------------------------------------------------
(* src/cpu/registers.rs: Flags *)

\* Flags::new as its doc comment has it, 0b1000_0000
Flags_new_doc ==
    [zero |-> TRUE, subtract |-> FALSE, half_carry |-> FALSE, carry |-> FALSE]

Flags_new ==
    [zero |-> TRUE, subtract |-> FALSE, half_carry |-> TRUE, carry |-> TRUE]

\* as_byte with carry packed at bit 3
as_byte_slip(f) ==
    LET b0 == 0
        b1 == IF f.zero       THEN BitOr(b0, Shl8(1, 7)) ELSE b0
        b2 == IF f.subtract   THEN BitOr(b1, Shl8(1, 6)) ELSE b1
        b3 == IF f.half_carry THEN BitOr(b2, Shl8(1, 5)) ELSE b2
        b4 == IF f.carry      THEN BitOr(b3, Shl8(1, 3)) ELSE b3
    IN  b4

as_byte(f) ==
    LET b0 == 0
        b1 == IF f.zero       THEN BitOr(b0, Shl8(1, 7)) ELSE b0
        b2 == IF f.subtract   THEN BitOr(b1, Shl8(1, 6)) ELSE b1
        b3 == IF f.half_carry THEN BitOr(b2, Shl8(1, 5)) ELSE b2
        b4 == IF f.carry      THEN BitOr(b3, Shl8(1, 4)) ELSE b3
    IN  b4

\* set_bits with the mask of half_carry used for subtract too
set_bits_slip(f, value) ==
    [zero       |-> BitAnd(value, 128) > 0,
     subtract   |-> BitAnd(value, 32) > 0,
     half_carry |-> BitAnd(value, 32) > 0,
     carry      |-> BitAnd(value, 16) > 0]

set_bits(f, value) ==
    [zero       |-> BitAnd(value, 128) > 0,
     subtract   |-> BitAnd(value, 64) > 0,
     half_carry |-> BitAnd(value, 32) > 0,
     carry      |-> BitAnd(value, 16) > 0]

----------------------------------------------------------------------------
(* src/cpu/registers.rs: Registers *)

Registers_new ==
    [a |-> 1, f |-> Flags_new, b |-> 0, c |-> 19, d |-> 0, e |-> 216,
     h |-> 1, l |-> 77, sp |-> 65534, pc |-> 256, ime |-> TRUE]

get_bc(r) == BitOr(Shl16(r.b, 8), r.c)

set_bc(r, value) ==
    [r EXCEPT !.b = AsU8(Shr(value, 8)), !.c = AsU8(BitAnd(value, 255))]

get_de(r) == BitOr(Shl16(r.d, 8), r.e)

\* set_de storing its low byte in c
set_de_slip(r, value) ==
    [r EXCEPT !.d = AsU8(Shr(value, 8)), !.c = AsU8(BitAnd(value, 255))]

set_de(r, value) ==
    [r EXCEPT !.d = AsU8(Shr(value, 8)), !.e = AsU8(BitAnd(value, 255))]

get_hl(r) == BitOr(Shl16(r.h, 8), r.l)

set_hl(r, value) ==
    [r EXCEPT !.h = AsU8(Shr(value, 8)), !.l = AsU8(BitAnd(value, 255))]

get_af(r) == BitOr(Shl16(r.a, 8), as_byte(r.f))

set_af(r, value) ==
    [r EXCEPT !.a = AsU8(Shr(value, 8)),
              !.f = set_bits(r.f, AsU8(BitAnd(value, 255)))]

get_zf(r) == r.f.zero
set_zf(r, value) == [r EXCEPT !.f.zero = value]
get_nf(r) == r.f.subtract
set_nf(r, value) == [r EXCEPT !.f.subtract = value]
get_hf(r) == r.f.half_carry
set_hf(r, value) == [r EXCEPT !.f.half_carry = value]
get_cf(r) == r.f.carry
set_cf(r, value) == [r EXCEPT !.f.carry = value]

----------------------------------------------------------------------------
(* The register file as a state machine: one action per public method *)

\* How many of the sample words the setters are called with
NumWords == 3

WordSamples == <<65535, 4847, 32768, 245, 43981, 511, 1>>

Words == {WordSamples[k] : k \in 1..NumWords}

AllFlags ==
    [zero : BOOLEAN, subtract : BOOLEAN, half_carry : BOOLEAN, carry : BOOLEAN]

notRegVars == <<flags, fcall, bytes, out, lcdcIn, offsetIn, taddr,
                ppu, memory, loads, frames, screen, renders, rlog, panicked>>

InitRegs ==
    /\ regs = Registers_new
    /\ call = [op |-> "new", arg |-> 0, ret |-> 0]

Call_set_bc(v) ==
    /\ regs' = set_bc(regs, v)
    /\ call' = [op |-> "set_bc", arg |-> v, ret |-> 0]
    /\ UNCHANGED notRegVars

Call_set_de(v) ==
    /\ regs' = set_de(regs, v)
    /\ call' = [op |-> "set_de", arg |-> v, ret |-> 0]
    /\ UNCHANGED notRegVars

Call_set_hl(v) ==
    /\ regs' = set_hl(regs, v)
    /\ call' = [op |-> "set_hl", arg |-> v, ret |-> 0]
    /\ UNCHANGED notRegVars

Call_set_af(v) ==
    /\ regs' = set_af(regs, v)
    /\ call' = [op |-> "set_af", arg |-> v, ret |-> 0]
    /\ UNCHANGED notRegVars

Call_get_bc ==
    /\ call' = [op |-> "get_bc", arg |-> 0, ret |-> get_bc(regs)]
    /\ UNCHANGED regs
    /\ UNCHANGED notRegVars

Call_get_de ==
    /\ call' = [op |-> "get_de", arg |-> 0, ret |-> get_de(regs)]
    /\ UNCHANGED regs
    /\ UNCHANGED notRegVars

Call_get_hl ==
    /\ call' = [op |-> "get_hl", arg |-> 0, ret |-> get_hl(regs)]
    /\ UNCHANGED regs
    /\ UNCHANGED notRegVars

Call_get_af ==
    /\ call' = [op |-> "get_af", arg |-> 0, ret |-> get_af(regs)]
    /\ UNCHANGED regs
    /\ UNCHANGED notRegVars

Call_set_zf(v) ==
    /\ regs' = set_zf(regs, v)
    /\ call' = [op |-> "set_zf", arg |-> v, ret |-> 0]
    /\ UNCHANGED notRegVars

Call_set_nf(v) ==
    /\ regs' = set_nf(regs, v)
    /\ call' = [op |-> "set_nf", arg |-> v, ret |-> 0]
    /\ UNCHANGED notRegVars

Call_set_hf(v) ==
    /\ regs' = set_hf(regs, v)
    /\ call' = [op |-> "set_hf", arg |-> v, ret |-> 0]
    /\ UNCHANGED notRegVars

Call_set_cf(v) ==
    /\ regs' = set_cf(regs, v)
    /\ call' = [op |-> "set_cf", arg |-> v, ret |-> 0]
    /\ UNCHANGED notRegVars

Call_get_zf ==
    /\ call' = [op |-> "get_zf", arg |-> 0, ret |-> get_zf(regs)]
    /\ UNCHANGED regs
    /\ UNCHANGED notRegVars

Call_get_nf ==
    /\ call' = [op |-> "get_nf", arg |-> 0, ret |-> get_nf(regs)]
    /\ UNCHANGED regs
    /\ UNCHANGED notRegVars

Call_get_hf ==
    /\ call' = [op |-> "get_hf", arg |-> 0, ret |-> get_hf(regs)]
    /\ UNCHANGED regs
    /\ UNCHANGED notRegVars

Call_get_cf ==
    /\ call' = [op |-> "get_cf", arg |-> 0, ret |-> get_cf(regs)]
    /\ UNCHANGED regs
    /\ UNCHANGED notRegVars

NextRegs ==
    \/ \E v \in Words : Call_set_bc(v)
    \/ \E v \in Words : Call_set_de(v)
    \/ \E v \in Words : Call_set_hl(v)
    \/ \E v \in Words : Call_set_af(v)
    \/ Call_get_bc
    \/ Call_get_de
    \/ Call_get_hl
    \/ Call_get_af
    \/ \E v \in BOOLEAN : Call_set_zf(v)
    \/ \E v \in BOOLEAN : Call_set_nf(v)
    \/ \E v \in BOOLEAN : Call_set_hf(v)
    \/ \E v \in BOOLEAN : Call_set_cf(v)
    \/ Call_get_zf
    \/ Call_get_nf
    \/ Call_get_hf
    \/ Call_get_cf

----------------------------------------------------------------------------
(* Flags on its own: as_byte and set_bits over every u8 and every Flags *)

notFlagVars == <<regs, call, bytes, out, lcdcIn, offsetIn, taddr,
                 ppu, memory, loads, frames, screen, renders, rlog, panicked>>

InitFlags ==
    /\ flags \in AllFlags
    /\ fcall = [op |-> "none", arg |-> 0, ret |-> 0]

IdleFlags ==
    /\ flags = Flags_new
    /\ fcall = [op |-> "none", arg |-> 0, ret |-> 0]

Call_set_bits(v) ==
    /\ flags' = set_bits(flags, v)
    /\ fcall' = [op |-> "set_bits", arg |-> v, ret |-> 0]
    /\ UNCHANGED notFlagVars

Call_as_byte ==
    /\ fcall' = [op |-> "as_byte", arg |-> 0, ret |-> as_byte(flags)]
    /\ UNCHANGED flags

\* set_bits(as_byte()) on the same instance
    /\ UNCHANGED notFlagVars

Call_set_bits_as_byte ==
    /\ flags' = set_bits(flags, as_byte(flags))
    /\ fcall' = [op |-> "roundtrip", arg |-> flags, ret |-> 0]
    /\ UNCHANGED notFlagVars

NextFlags ==
    \/ \E v \in U8 : Call_set_bits(v)
    \/ Call_as_byte
    \/ Call_set_bits_as_byte

----------------------------------------------------------------------------
(* src/ppu.rs: Ppu::interleave *)

\* bs is the argument array, bs[1] = bytes[0] and bs[2] = bytes[1];
\* the result is the array out, indexed 0..7 as in the source
\* interleave with the two planes exchanged
interleave_swapped(bs) ==
    [i \in 0..7 |->
        LET high == Shl8(BitAnd(bs[2], Shr(128, i)), 1)
            low  == BitAnd(bs[1], Shr(128, i))
        IN  Shr(BitOr(high, low), 7 - i)]

\* interleave without the final shift down
interleave_unshifted(bs) ==
    [i \in 0..7 |->
        LET high == Shl8(BitAnd(bs[1], Shr(128, i)), 1)
            low  == BitAnd(bs[2], Shr(128, i))
        IN  BitOr(high, low)]

interleave(bs) ==
    [i \in 0..7 |->
        LET high == Shl8(BitAnd(bs[1], Shr(128, i)), 1)
            low  == BitAnd(bs[2], Shr(128, i))
        IN  Shr(BitOr(high, low), 7 - i)]

InitInterleave ==
    /\ bytes \in U8 \X U8
    /\ out = << >>

IdleInterleave ==
    /\ bytes = <<0, 0>>
    /\ out = << >>

Call_interleave ==
    /\ out = << >>
    /\ out' = interleave(bytes)
    /\ UNCHANGED bytes

NextInterleave ==
    /\ Call_interleave
    /\ UNCHANGED <<regs, call, flags, fcall, lcdcIn, offsetIn, taddr,
                   ppu, memory, loads, frames, screen, renders, rlog, panicked>>

----------------------------------------------------------------------------
(* src/ppu.rs: the tile address of a background-map cell *)

\* a + b on u16: the sum as it wraps, and whether it overflowed (a build with
\* overflow checks panics there, one without them goes on with the wrapped sum)
add_u16(a, b) == [val |-> (a + b) % 65536, overflow |-> a + b > 65535]

\* address_type testing lcdc bit 3
address_type_bit3(lcdc) ==
    IF BitAnd(lcdc, Shl8(1, 3)) = Shl8(1, 3) THEN "Unsigned" ELSE "Signed"

address_type(lcdc) ==
    IF BitAnd(lcdc, Shl8(1, 4)) = Shl8(1, 4) THEN "Unsigned" ELSE "Signed"

tile_addr(at, offset) ==
    IF at = "Unsigned"
    THEN add_u16(32768, offset)
    ELSE [val |-> wrapping_add(36864, AsU16(AsI16(offset))), overflow |-> FALSE]

\* cell_offset with the stride of the 256-wide raster
cell_offset_raster(x, y) == x * 256 + y

\* the offset render computes for cell (x, y)
cell_offset(x, y) == x * 32 + y

CellOffsets == {cell_offset(x, y) : x \in 0..31, y \in 0..31}

\* offsets from outside render's range, for the wrapping of the addition
WideOffsets == {32767, 32768, 61439, 65535}

InitAddr ==
    /\ lcdcIn \in U8
    /\ offsetIn \in CellOffsets \cup WideOffsets
    /\ taddr = [done |-> FALSE, panic |-> FALSE, addr |-> 0]

IdleAddr ==
    /\ lcdcIn = 0
    /\ offsetIn = 0
    /\ taddr = [done |-> FALSE, panic |-> FALSE, addr |-> 0]

Call_tile_addr ==
    /\ ~taddr.done
    /\ LET r == tile_addr(address_type(lcdcIn), offsetIn)
       IN  \E checked \in (IF r.overflow THEN BOOLEAN ELSE {FALSE}) :
              taddr' = IF checked
                       THEN [done |-> TRUE, panic |-> TRUE, addr |-> 0]
                       ELSE [done |-> TRUE, panic |-> FALSE, addr |-> r.val]
    /\ UNCHANGED <<lcdcIn, offsetIn>>

NextAddr ==
    /\ Call_tile_addr
    /\ UNCHANGED <<regs, call, flags, fcall, bytes, out,
                   ppu, memory, loads, frames, screen, renders, rlog, panicked>>

----------------------------------------------------------------------------
(* src/ppu.rs: Ppu and Ppu::render *)

\* How many render calls a run makes
MaxRenders == 2

\* palette[0..3], as the sequence Palette[1..4]
Palette == <<8704, 864013, 13693648, 14548957>>

\* the length of fb, 256 * 256
FbLen == 256 * 256

Ppu_new          == [window |-> "Some", lcdc |-> 0, stat |-> 0]

Ppu_new_headless == [window |-> "None", lcdc |-> 0, stat |-> 0]

\* The Mmu: the bytes stored so far; every other address reads as 0
Load(mem, a) == IF a \in DOMAIN mem THEN mem[a] ELSE 0

\* Mmu::load_block(start, end): the bytes of start..end, both included,
\* indexed from 0
load_block(mem, start, end) == [k \in 0..(end - start) |-> Load(mem, start + k)]

\* the index of fb that row i, column j of the cell at `offset` is written to
fb_index(offset, i, j) == offset + i * 8 + j

\* the place of iteration (offset, i, j) in the order the loops run in:
\* x outermost, then y, then i, then j, with offset = x * 32 + y
IterOrder(offset, i, j) == (offset * 8 + i) * 8 + j

\* every index of fb the loops write to
WrittenIdx == {fb_index(o, i, j) : o \in CellOffsets, i \in 0..7, j \in 0..7}

\* the iterations (offset, i, j) that write fb[k]: offset = k - (i * 8 + j)
WritesTo(k) ==
    {w \in {<<k - fb_index(0, i, j), i, j>> : i \in 0..7, j \in 0..7} :
        w[1] \in CellOffsets /\ fb_index(w[1], w[2], w[3]) = k}

\* the last of them, whose value fb[k] keeps
LastWrite(k) ==
    LET ws == WritesTo(k)
    IN  CHOOSE w \in ws :
            \A v \in ws : IterOrder(v[1], v[2], v[3]) <= IterOrder(w[1], w[2], w[3])

\* for every index written, the iteration that writes it last
LastWriteOf == [k \in WrittenIdx |-> LastWrite(k)]

\* What one render call with a window does, up to the call of
\* update_with_buffer: the tile addresses it loads from, whether an addition
\* overflows, whether an index leaves fb or the palette, and fb as filled
render_body(p, mem) ==
    LET at      == address_type(p.lcdc)
        ta(o)   == tile_addr(at, o)
        pair(o) == load_block(mem, ta(o).val, add_u16(ta(o).val, 1).val)
        pixels(o) == interleave(<<pair(o)[0], pair(o)[1]>>)
        pairs   == {<<pair(o)[0], pair(o)[1]>> : o \in CellOffsets}
    IN  [addrs    |-> {ta(o).val : o \in CellOffsets},
         overflow |-> \E o \in CellOffsets :
                          ta(o).overflow \/ add_u16(ta(o).val, 1).overflow,
         oob      |-> (\E k \in WrittenIdx : k >= FbLen)
                      \/ (\E pr \in pairs : \E j \in 0..7 :
                              interleave(pr)[j] + 1 > Len(Palette)),
         idx      |-> WrittenIdx,
         fb       |-> [k \in WrittenIdx |->
                          LET w == LastWriteOf[k]
                          IN  Palette[pixels(w[1])[w[3]] + 1]]]

\* fb is kept as the cells that were written; fb starts as [0; 256 * 256], so
\* every other cell of it holds 0
fb_cell(buf, k) == IF k \in DOMAIN buf THEN buf[k] ELSE 0

NoLog == [idx |-> {}, addrs |-> {}]

notPpuVars == <<regs, call, flags, fcall, bytes, out, lcdcIn, offsetIn, taddr>>

InitPpu ==
    /\ ppu \in {Ppu_new, Ppu_new_headless}
    /\ memory = << >>
    /\ loads = 0
    /\ frames = 0
    /\ screen = << >>
    /\ renders = 0
    /\ rlog = NoLog
    /\ panicked = FALSE

IdlePpu ==
    /\ ppu = Ppu_new_headless
    /\ memory = << >>
    /\ loads = 0
    /\ frames = 0
    /\ screen = << >>
    /\ renders = 0
    /\ rlog = NoLog
    /\ panicked = FALSE

\* render without the `if let Some(window)` test
RenderUnguarded ==
    /\ ~panicked
    /\ renders < MaxRenders
    /\ ppu.window = "None"
    /\ renders' = renders + 1
    /\ loads' = loads + 32 * 32 * 8
    /\ UNCHANGED <<ppu, memory, frames, screen, rlog, panicked>>
    /\ UNCHANGED notPpuVars

\* render on a Ppu without a window: the `if let` does not match
RenderHeadless ==
    /\ ~panicked
    /\ renders < MaxRenders
    /\ ppu.window = "None"
    /\ renders' = renders + 1
    /\ UNCHANGED <<ppu, memory, loads, frames, screen, rlog, panicked>>
    /\ UNCHANGED notPpuVars

\* render on a Ppu with a window; presented is whether update_with_buffer
\* returns Ok
RenderWindow(presented) ==
    /\ ~panicked
    /\ renders < MaxRenders
    /\ ppu.window = "Some"
    /\ renders' = renders + 1
    /\ LET r == render_body(ppu, memory)
       IN  \E checked \in (IF r.overflow THEN BOOLEAN ELSE {FALSE}) :
              IF checked \/ r.oob
              THEN /\ panicked' = TRUE
                   /\ UNCHANGED <<loads, frames, screen, rlog>>
              ELSE /\ loads' = loads + 32 * 32 * 8
                   /\ rlog' = [idx |-> r.idx, addrs |-> r.addrs]
                   /\ IF presented
                      THEN /\ frames' = frames + 1
                           /\ screen' = r.fb
                           /\ panicked' = FALSE
                      ELSE /\ panicked' = TRUE
                           /\ UNCHANGED <<frames, screen>>
    /\ UNCHANGED <<ppu, memory>>
    /\ UNCHANGED notPpuVars

\* the addresses and bytes the emulated program stores
StoreAddrs == {32768, 36865}

StoreVals == {240, 170}

\* lcdc values the I/O layer sets
LcdcVals == {16, 239}

MmuStore(a, v) ==
    /\ ~panicked
    /\ memory' = [x \in DOMAIN memory \cup {a} |-> IF x = a THEN v ELSE memory[x]]
    /\ UNCHANGED <<ppu, loads, frames, screen, renders, rlog, panicked>>
    /\ UNCHANGED notPpuVars

MmioSetLcdc(v) ==
    /\ ~panicked
    /\ ppu' = [ppu EXCEPT !.lcdc = v]
    /\ UNCHANGED <<memory, loads, frames, screen, renders, rlog, panicked>>
    /\ UNCHANGED notPpuVars

NextPpu ==
    \/ RenderHeadless
    \/ \E presented \in BOOLEAN : RenderWindow(presented)
    \/ \E a \in StoreAddrs, v \in StoreVals : MmuStore(a, v)
    \/ \E v \in LcdcVals : MmioSetLcdc(v)

----------------------------------------------------------------------------
(* Specifications *)

Init == InitRegs /\ IdleFlags /\ IdleInterleave /\ IdleAddr /\ IdlePpu

Next == NextRegs

Spec == Init /\ [][Next]_vars

FlagsInit == InitFlags /\ InitRegs /\ IdleInterleave /\ IdleAddr /\ IdlePpu

SpecFlags == FlagsInit /\ [][NextFlags]_vars

InterleaveInit == InitInterleave /\ InitRegs /\ IdleFlags /\ IdleAddr /\ IdlePpu

SpecInterleave == InterleaveInit /\ [][NextInterleave]_vars

AddrInit == InitAddr /\ InitRegs /\ IdleFlags /\ IdleInterleave /\ IdlePpu

SpecAddr == AddrInit /\ [][NextAddr]_vars

PpuInit == InitPpu /\ InitRegs /\ IdleFlags /\ IdleInterleave /\ IdleAddr

SpecPpu == PpuInit /\ [][NextPpu]_vars

----------------------------------------------------------------------------
(* Claims *)

Bit(v, n) == (v \div Pow2(n)) % 2

\* C1: for every byte pair (hi, lo) and every position i in 0..7,
\* interleave([hi, lo])[i] = 2 * bit (7-i) of hi + bit (7-i) of lo.
C1_InterleaveFormula ==
    out # << >> =>
        \A i \in 0..7 :
            out[i] = 2 * Bit(bytes[1], 7 - i) + Bit(bytes[2], 7 - i)

C3_FlagsRoundTrip ==
    /\ fcall.op = "set_bits" =>
          /\ as_byte(flags) = (fcall.arg \div 16) * 16
          /\ as_byte(flags) % 16 = 0
    /\ fcall.op = "roundtrip" => flags = fcall.arg

C3_LowNibbleDropped ==
    /\ fcall.op = "set_bits"
    /\ fcall.arg % 16 # 0
    /\ fcall.arg >= 16
    /\ as_byte(flags) # fcall.arg

\* C4: set_bc(v) then get_bc() gives v, likewise for DE and HL; set_af(v)
\* then get_af() gives v with its low nibble cleared.
C4_PairRoundTrip ==
    /\ call.op = "set_bc" => get_bc(regs) = call.arg
    /\ call.op = "set_de" => get_de(regs) = call.arg
    /\ call.op = "set_hl" => get_hl(regs) = call.arg
    /\ call.op = "set_af" => get_af(regs) = (call.arg \div 16) * 16

C4_AfLowNibbleDropped ==
    /\ call.op = "set_af"
    /\ call.arg % 16 # 0
    /\ get_af(regs) # call.arg
    /\ get_af(regs) = (call.arg \div 16) * 16

\* C5: each pair setter changes only its own two fields (set_af: a and the
\* flags), and the pair getters and flag getters change nothing.
C5_PairSetterFrame ==
    [][ /\ call'.op = "set_bc" => regs' = [regs EXCEPT !.b = regs'.b, !.c = regs'.c]
        /\ call'.op = "set_de" => regs' = [regs EXCEPT !.d = regs'.d, !.e = regs'.e]
        /\ call'.op = "set_hl" => regs' = [regs EXCEPT !.h = regs'.h, !.l = regs'.l]
        /\ call'.op = "set_af" => regs' = [regs EXCEPT !.a = regs'.a, !.f = regs'.f]
        /\ call'.op \in {"get_bc", "get_de", "get_hl", "get_af",
                         "get_zf", "get_nf", "get_hf", "get_cf"} => regs' = regs
      ]_vars

C5_SetDeAfterOthers ==
    /\ call.op = "set_de"
    /\ get_de(regs) = 65535
    /\ get_bc(regs) = 4847
    /\ get_hl(regs) = 32768
    /\ regs.f # Flags_new

C7_HeadlessRenderNoOp ==
    /\ [](ppu.window = "None" => loads = 0 /\ frames = 0 /\ ~panicked /\ screen = << >>)
    /\ [][ (ppu.window = "None" /\ renders' # renders) =>
              /\ loads' = loads
              /\ frames' = frames
              /\ screen' = screen
              /\ ~panicked'
              /\ ppu' = ppu
         ]_vars

C7_HeadlessRendered ==
    /\ ppu.window = "None"
    /\ renders = MaxRenders
    /\ memory # << >>
    /\ ppu.lcdc # 0

\* C8: with lcdc bit 4 set the tile address is 0x8000 + offset; with it clear
\* it is 0x9000 plus the offset read as a signed 16-bit value, modulo 65536,
\* so offset 0xFFFF gives 0x8FFF; no other bit of lcdc matters.
C8_TileAddress ==
    taddr.done =>
        LET bit4   == Bit(lcdcIn, 4) = 1
            signed == IF offsetIn >= 32768 THEN offsetIn - 65536 ELSE offsetIn
        IN  /\ (bit4 /\ 32768 + offsetIn <= 65535) =>
                  (~taddr.panic /\ taddr.addr = 32768 + offsetIn)
            /\ ~bit4 =>
                  (~taddr.panic /\ taddr.addr = (36864 + signed) % 65536)
            /\ (~bit4 /\ offsetIn = 65535) => taddr.addr = 36863

C8_SignedWraps ==
    /\ taddr.done
    /\ lcdcIn = 239
    /\ offsetIn = 65535
    /\ taddr.addr = 36863

\* C9: interleave returns exactly 8 values, each in 0..3, for every byte
\* pair, so palette[pixel] stays inside the 4-entry palette.
C9_InterleaveRange ==
    out # << >> =>
        /\ DOMAIN out = 0..7
        /\ \A i \in 0..7 : out[i] \in 0..3 /\ out[i] + 1 \in DOMAIN Palette

C9_AllColours ==
    /\ out # << >>
    /\ {out[i] : i \in 1..7} = 0..3

\* the indexes offset + i*8 + j with offset = x*32 + y
FlatIndexes ==
    {(x * 32 + y) + i * 8 + j : x \in 0..31, y \in 0..31, i \in 0..7, j \in 0..7}

\* C10: a render call with a window writes pixel (i, j) of cell (x, y) at
\* index x*32 + y + i*8 + j; every index written is at most 1086, inside the
\* buffer; no tile address plus one overflows 16 bits; and every cell of the
\* presented buffer from index 1087 on is still 0.
C10_RenderWrites ==
    (ppu.window = "Some" /\ renders > 0) =>
        /\ rlog # NoLog
        /\ rlog.idx = FlatIndexes
        /\ \A k \in rlog.idx : k <= 1086 /\ k < 256 * 256
        /\ \A a \in rlog.addrs : a + 1 <= 65535
        /\ frames > 0 =>
              /\ \A k \in 1087..(FbLen - 1) : fb_cell(screen, k) = 0
              /\ \A k \in 0..1086 : fb_cell(screen, k) # 0

C10_FramePresented ==
    /\ ppu.window = "Some"
    /\ frames > 0
    /\ ppu.lcdc = 16
    /\ memory # << >>
    /\ fb_cell(screen, 1086) # 0
    /\ 1086 \in rlog.idx

====
